---------------------------- MODULE Spec2Model ----------------------------
(***************************************************************************)
(* The game-state machine of the snake game: the GameState held by App,    *)
(* the pending heading (nextDirection), the persisted high score           *)
(* (localStorage 'snake-highscore'), and the handlers that change them:    *)
(* startGame, pauseGame, handleDirectionChange, the keyboard/button        *)
(* triggers and the game loop (the useInterval callback).                  *)
(***************************************************************************)
EXTENDS Integers, Sequences, FiniteSets

(* ---- program constants (constants.ts) ---- *)
GRID_SIZE == 20
INITIAL_SPEED == 150
MIN_SPEED == 60
SPEED_DECREMENT == 2

(* ---- bounds of the model ---- *)
\* ticks explored per game
MaxTicks == 5
\* Math.random draws followed: the cells up to RandSpan steps left of and
\* above the head of the snake the food is placed against (see Draws)
RandSpan == 1
\* largest high score found in localStorage when the page loads
MaxSaved == 1
\* side of the corner windows the drawn snakes of InitTick live in
WindowSize == 3
\* longest drawn snake of InitTick (besides the long, slow-clamped ones)
MaxLen == 5

NULL == "null"

Direction == {"UP", "DOWN", "LEFT", "RIGHT"}
GameStatus == {"IDLE", "PLAYING", "PAUSED", "GAME_OVER"}

VARIABLES
  snake,          \* GameState.snake: sequence of cells, head first
  food,           \* GameState.food
  direction,      \* GameState.direction
  score,          \* GameState.score
  highScore,      \* GameState.highScore
  status,         \* GameState.status
  speed,          \* GameState.speed (ms per tick)
  deathReason,    \* GameState.deathReason: "WALL", "SELF" or NULL
  nextDirection,  \* the queued direction (useState nextDirection)
  saved,          \* localStorage 'snake-highscore': <<>> (no item) or <<n>>
  ticks,          \* ticks played in the current game (bounds the model)
  startHigh,      \* history: highScore when the current game started
  last,           \* history: the last handler run, the path it took, its
                  \* argument and the values it wrote to localStorage
  foodCall        \* a generateFood call followed draw by draw: <<>> (none), or
                  \* <<[snake, newFood, returned]>> with its argument, its
                  \* local newFood (<<>> before the first draw) and whether
                  \* the loop has been left

gameState == <<snake, food, direction, score, highScore, status, speed, deathReason>>
vars == <<snake, food, direction, score, highScore, status, speed, deathReason,
          nextDirection, saved, ticks, startHigh, last, foodCall>>

Cell(x, y) == [x |-> x, y |-> y]

INITIAL_SNAKE == <<Cell(10, 10), Cell(10, 11), Cell(10, 12)>>

\* arr.some(seg => seg.x === coord.x && seg.y === coord.y)
isAtCoordinate(coord, arr) ==
  \E i \in 1..Len(arr) : arr[i].x = coord.x /\ arr[i].y = coord.y

\* the values Math.floor(Math.random() * GRID_SIZE) takes in the model
Rand(v) == {i \in 0..(GRID_SIZE - 1) : i >= v - RandSpan /\ i <= v}

\* the draws { x: ..., y: ... } the model follows for a body with head h: the
\* cells at most RandSpan steps from h, to its left and above it, and the
\* cell half a grid away from h on both axes
Draws(h) ==
  {c \in {Cell(i, j) : i \in Rand(h.x), j \in Rand(h.y)} :
     (h.x - c.x) + (h.y - c.y) <= RandSpan}
    \cup {Cell((h.x + GRID_SIZE \div 2) % GRID_SIZE,
                (h.y + GRID_SIZE \div 2) % GRID_SIZE)}

\* generateFood returning its draw without the test against the body
generateFood_NoReject(body) == Draws(body[1])

\* generateFood(snake): the coordinates the rejection loop can return
generateFood(body) ==
  {c \in Draws(body[1]) : ~isAtCoordinate(c, body)}

Init ==
  /\ saved \in {<<>>} \cup {<<n>> : n \in 1..MaxSaved}
  /\ snake = INITIAL_SNAKE
  /\ food = Cell(5, 5)
  /\ direction = "UP"
  /\ score = 0
  /\ highScore = (IF saved = <<>> THEN 0 ELSE saved[1])
  /\ status = "IDLE"
  /\ speed = INITIAL_SPEED
  /\ deathReason = NULL
  /\ nextDirection = "UP"
  /\ ticks = 0
  /\ startHigh = highScore
  /\ last = [op |-> "init", path |-> "init", arg |-> NULL, wrote |-> <<>>]
  /\ foodCall = <<>>

\* startGame spreading INITIAL_STATE without carrying prev.highScore over
startGame_ForgetsHighScore ==
  /\ snake' = INITIAL_SNAKE
  /\ food' \in generateFood(INITIAL_SNAKE)
  /\ direction' = "UP"
  /\ score' = 0
  /\ highScore' = 0
  /\ status' = "PLAYING"
  /\ speed' = INITIAL_SPEED
  /\ deathReason' = NULL
  /\ nextDirection' = "UP"
  /\ ticks' = 0
  /\ startHigh' = 0
  /\ last' = [op |-> "startGame", path |-> "start", arg |-> NULL, wrote |-> <<>>]
  /\ UNCHANGED <<saved, foodCall>>

startGame ==
  /\ snake' = INITIAL_SNAKE
  /\ food' \in generateFood(INITIAL_SNAKE)
  /\ direction' = "UP"
  /\ score' = 0
  /\ highScore' = highScore
  /\ status' = "PLAYING"
  /\ speed' = INITIAL_SPEED
  /\ deathReason' = NULL
  /\ nextDirection' = "UP"
  /\ ticks' = 0
  /\ startHigh' = highScore
  /\ last' = [op |-> "startGame", path |-> "start", arg |-> NULL, wrote |-> <<>>]
  /\ UNCHANGED <<saved, foodCall>>

pauseGame ==
  /\ status \in {"PLAYING", "PAUSED"}
  /\ status' = (IF status = "PLAYING" THEN "PAUSED" ELSE "PLAYING")
  /\ last' = [op |-> "pauseGame",
              path |-> (IF status = "PLAYING" THEN "pause" ELSE "resume"),
              arg |-> NULL, wrote |-> <<>>]
  /\ UNCHANGED <<snake, food, direction, score, highScore, speed, deathReason,
                 nextDirection, saved, ticks, startHigh, foodCall>>

\* isOpposite with the LEFT/RIGHT cases of the test missing
isOpposite_VerticalOnly(newDir, cur) ==
  \/ (newDir = "UP" /\ cur = "DOWN")
  \/ (newDir = "DOWN" /\ cur = "UP")

\* the 180-degree test of handleDirectionChange, against GameState.direction
isOpposite(newDir, cur) ==
  \/ (newDir = "UP" /\ cur = "DOWN")
  \/ (newDir = "DOWN" /\ cur = "UP")
  \/ (newDir = "LEFT" /\ cur = "RIGHT")
  \/ (newDir = "RIGHT" /\ cur = "LEFT")

\* handleDirectionChange without the 180-degree test
handleDirectionChange_NoTest(newDir) ==
  /\ nextDirection' = newDir
  /\ last' = [op |-> "direction", path |-> "queued", arg |-> newDir, wrote |-> <<>>]
  /\ UNCHANGED <<gameState, saved, ticks, startHigh, foodCall>>

\* the 180-degree test made against the pending heading instead of
\* current.direction
handleDirectionChange_TestsPending(newDir) ==
  /\ IF isOpposite(newDir, nextDirection)
       THEN /\ UNCHANGED nextDirection
            /\ last' = [op |-> "direction", path |-> "rejected", arg |-> newDir, wrote |-> <<>>]
       ELSE /\ nextDirection' = newDir
            /\ last' = [op |-> "direction", path |-> "queued", arg |-> newDir, wrote |-> <<>>]
  /\ UNCHANGED <<gameState, saved, ticks, startHigh, foodCall>>

\* arrow keys, WASD, swipes and the d-pad all end here
handleDirectionChange(newDir) ==
  /\ IF isOpposite(newDir, direction)
       THEN /\ UNCHANGED nextDirection
            /\ last' = [op |-> "direction", path |-> "rejected", arg |-> newDir, wrote |-> <<>>]
       ELSE /\ nextDirection' = newDir
            /\ last' = [op |-> "direction", path |-> "queued", arg |-> newDir, wrote |-> <<>>]
  /\ UNCHANGED <<gameState, saved, ticks, startHigh, foodCall>>

DirectionInput == \E newDir \in Direction : handleDirectionChange(newDir)

\* the space handler of a keydown effect that never re-subscribes: it keeps
\* seeing the status of the first render, IDLE
SpaceKey_StaleStatus == startGame

\* handleKeyDown, case ' '
SpaceKey ==
  IF status = "GAME_OVER" \/ status = "IDLE"
    THEN startGame
    ELSE pauseGame

\* the START GAME button exists only in the IDLE overlay
StartButton == status = "IDLE" /\ startGame

\* Play Again lives in GameOverModal, rendered only in GAME_OVER
PlayAgainButton == status = "GAME_OVER" /\ startGame

\* the pause button is disabled in IDLE and GAME_OVER
PauseButton ==
  /\ ~(status = "IDLE" \/ status = "GAME_OVER")
  /\ pauseGame

(* ---- the game loop ---- *)
Max(a, b) == IF a >= b THEN a ELSE b

Tail_(s) == s[Len(s)]

\* the switch on currentDir
NewHead(head, dir) ==
  CASE dir = "UP"    -> Cell(head.x, head.y - 1)
    [] dir = "DOWN"  -> Cell(head.x, head.y + 1)
    [] dir = "LEFT"  -> Cell(head.x - 1, head.y)
    [] dir = "RIGHT" -> Cell(head.x + 1, head.y)

\* Check Walls with the upper bounds tested by > instead of >=
HitsWall_OffByOne(newHead) ==
  newHead.x < 0 \/ newHead.x > GRID_SIZE \/ newHead.y < 0 \/ newHead.y > GRID_SIZE

\* Check Walls without the tests against 0
HitsWall_UpperOnly(newHead) ==
  newHead.x >= GRID_SIZE \/ newHead.y >= GRID_SIZE

\* Check Walls
HitsWall(newHead) ==
  newHead.x < 0 \/ newHead.x >= GRID_SIZE \/ newHead.y < 0 \/ newHead.y >= GRID_SIZE

\* the strict check the comments weigh: no exception for the last segment
HitsSelf_Strict(newHead, body) == isAtCoordinate(newHead, body)

\* Check Self Collision: on the body, and not on its last segment
HitsSelf(newHead, body) ==
  /\ isAtCoordinate(newHead, body)
  /\ (newHead.x # Tail_(body).x \/ newHead.y # Tail_(body).y)

\* Check Food comparing the two objects, not their coordinates
AteFood_ByReference(newHead, f) == FALSE

\* Check Food
AteFood(newHead, f) == newHead.x = f.x /\ newHead.y = f.y

\* newSnake.pop()
Pop(s) == SubSeq(s, 1, Len(s) - 1)

\* the post-pop check without slice(1): the head is looked for in the whole
\* of newSnake
isSelfCollision_NoSlice(newSnake) == isAtCoordinate(newSnake[1], newSnake)

\* newSnake.slice(1).some(seg => seg is newHead)
isSelfCollision(newSnake) == isAtCoordinate(newSnake[1], Tail(newSnake))

\* newSpeed without the Math.max against MIN_SPEED
NewSpeed_NoClamp(prevSpeed) == prevSpeed - SPEED_DECREMENT

\* newSpeed with Math.min in the place of Math.max
NewSpeed_MathMin(prevSpeed) ==
  IF MIN_SPEED <= prevSpeed - SPEED_DECREMENT THEN MIN_SPEED
  ELSE prevSpeed - SPEED_DECREMENT

NewSpeed(prevSpeed) == Max(MIN_SPEED, prevSpeed - SPEED_DECREMENT)

\* the high score raised only once the score is two above it
NewHighScore_Late(newScore, prevHigh) ==
  IF newScore - 1 > prevHigh THEN newScore ELSE prevHigh

NewHighScore(newScore, prevHigh) == IF newScore > prevHigh THEN newScore ELSE prevHigh

\* localStorage after the setItem calls of a handler, given their values in order
Store(item, values) ==
  IF values = <<>> THEN item ELSE <<values[Len(values)]>>

\* the high score stored at every meal, record or not
Persist_EveryMeal(newScore, prevHigh) == <<newScore>>

\* the values the growth path passes to localStorage.setItem, in order
Persist(newScore, prevHigh) ==
  IF newScore > prevHigh THEN <<newScore>> ELSE <<>>

\* the return of a death without its deathReason
Die_NoReason(reason, path) ==
  /\ status' = "GAME_OVER"
  /\ last' = [op |-> "tick", path |-> path, arg |-> NULL, wrote |-> <<>>]
  /\ UNCHANGED <<snake, food, direction, score, highScore, speed, deathReason,
                 nextDirection, saved>>

\* return { ...prev, status: GAME_OVER, deathReason: reason }
Die(reason, path) ==
  /\ status' = "GAME_OVER"
  /\ deathReason' = reason
  /\ last' = [op |-> "tick", path |-> path, arg |-> NULL, wrote |-> <<>>]
  /\ UNCHANGED <<snake, food, direction, score, highScore, speed, nextDirection, saved>>

DieWall == Die("WALL", "wall")

\* the self-collision branch reporting the wall
DieSelf_AsWall == Die("WALL", "self")

DieSelf == Die("SELF", "self")

DieSelfAfterPop == Die("SELF", "self_after_pop")

\* the growth path popping the tail as well
Grow_PopsTail(newSnake, currentDir, path) ==
  /\ snake' = SubSeq(newSnake, 1, Len(newSnake) - 1)
  /\ food' \in generateFood(newSnake)
  /\ score' = score + 1
  /\ speed' = Max(MIN_SPEED, speed - SPEED_DECREMENT)
  /\ highScore' = (IF score + 1 > highScore THEN score + 1 ELSE highScore)
  /\ saved' = Store(saved, Persist(score + 1, highScore))
  /\ direction' = currentDir
  /\ last' = [op |-> "tick", path |-> path, arg |-> NULL,
              wrote |-> Persist(score + 1, highScore)]
  /\ UNCHANGED <<status, deathReason, nextDirection>>

\* Ate food: don't pop tail
Grow(newSnake, currentDir, path) ==
  /\ snake' = newSnake
  /\ food' \in generateFood(newSnake)
  /\ score' = score + 1
  /\ speed' = NewSpeed(speed)
  /\ highScore' = NewHighScore(score + 1, highScore)
  /\ saved' = Store(saved, Persist(score + 1, highScore))
  /\ direction' = currentDir
  /\ last' = [op |-> "tick", path |-> path, arg |-> NULL,
              wrote |-> Persist(score + 1, highScore)]
  /\ UNCHANGED <<status, deathReason, nextDirection>>

\* the non-growth commit leaving GameState.direction as it was
Slide_KeepsDirection(newSnake, currentDir, path) ==
  /\ snake' = SubSeq(newSnake, 1, Len(newSnake) - 1)
  /\ last' = [op |-> "tick", path |-> path, arg |-> NULL, wrote |-> <<>>]
  /\ UNCHANGED <<direction, food, score, speed, highScore, saved, status,
                 deathReason, nextDirection>>

\* Didn't eat: pop tail
Slide(newSnake, currentDir, path) ==
  IF isSelfCollision(Pop(newSnake))
    THEN DieSelfAfterPop
    ELSE /\ snake' = Pop(newSnake)
         /\ direction' = currentDir
         /\ last' = [op |-> "tick", path |-> path, arg |-> NULL, wrote |-> <<>>]
         /\ UNCHANGED <<food, score, speed, highScore, saved, status, deathReason,
                        nextDirection>>

\* if (prev.status !== GameStatus.PLAYING) return prev
GameLoopSkip ==
  /\ last' = [op |-> "tick", path |-> "skip", arg |-> NULL, wrote |-> <<>>]
  /\ UNCHANGED <<gameState, nextDirection, saved, ticks, startHigh, foodCall>>

\* the rest of the updater: move, collide, eat or slide, commit
GameLoopStep ==
  /\ ticks < MaxTicks
  /\ ticks' = ticks + 1
  /\ UNCHANGED <<startHigh, foodCall>>
  /\ LET head == snake[1]
         currentDir == nextDirection
         newHead == NewHead(head, currentDir)
         newSnake == <<newHead>> \o snake
         onTail == isAtCoordinate(newHead, snake)
     IN  IF HitsWall(newHead) THEN DieWall
         ELSE IF HitsSelf(newHead, snake) THEN DieSelf
         ELSE IF AteFood(newHead, food)
           THEN Grow(newSnake, currentDir, IF onTail THEN "tail_grow" ELSE "grow")
           ELSE Slide(newSnake, currentDir, IF onTail THEN "tail_slide" ELSE "slide")

\* the updater without its first line
GameLoop_NoGuard == GameLoopStep

\* the useInterval callback
GameLoop ==
  IF status # "PLAYING" THEN GameLoopSkip ELSE GameLoopStep

Next ==
  \/ SpaceKey
  \/ StartButton
  \/ PlayAgainButton
  \/ PauseButton
  \/ DirectionInput
  \/ GameLoop

Spec == Init /\ [][Next]_vars

(***************************************************************************)
(* The game loop as a function of the state it is handed: SpecTick starts  *)
(* from PLAYING states of a game in progress (snakes drawn in the corners  *)
(* of the grid, and long snakes whose tick interval is at the clamp) and   *)
(* applies one tick to each.                                               *)
(***************************************************************************)
Opposite(dir) ==
  CASE dir = "UP"    -> "DOWN"
    [] dir = "DOWN"  -> "UP"
    [] dir = "LEFT"  -> "RIGHT"
    [] dir = "RIGHT" -> "LEFT"

\* the corner windows: top-left and bottom-right, so all four walls are near
Windows ==
  {{Cell(o + i, o + j) : i \in 0..(WindowSize - 1), j \in 0..(WindowSize - 1)} :
     o \in {0, GRID_SIZE - WindowSize}}

\* the bodies of n cells lying in window w: each cell next to the one before
\* it, no cell twice (head first)
RECURSIVE Bodies(_, _)
Bodies(w, n) ==
  IF n = 1 THEN {<<c>> : c \in w}
  ELSE UNION {{<<NewHead(b[1], d)>> \o b :
                 d \in {e \in Direction : /\ NewHead(b[1], e) \in w
                                          /\ ~isAtCoordinate(NewHead(b[1], e), b)}} :
              b \in Bodies(w, n - 1)}

SmallSnakes == UNION {Bodies(w, n) : w \in Windows, n \in 3..MaxLen}

\* score at which the tick interval first reaches MIN_SPEED
ClampScore == (INITIAL_SPEED - MIN_SPEED) \div SPEED_DECREMENT

\* a body of n cells winding up and down the rightmost columns, tail in the
\* bottom-right corner
LongSnake(n) ==
  [i \in 1..n |->
     LET k == n - i
         col == k \div GRID_SIZE
         row == k % GRID_SIZE
     IN  Cell(GRID_SIZE - 1 - col,
              IF col % 2 = 0 THEN GRID_SIZE - 1 - row ELSE row)]

LongSnakes == {LongSnake(ClampScore + 3 + d) : d \in {-1, 0, 1}}

\* the heading the snake last moved along: from its second cell to its head
HeadingOf(body) == CHOOSE d \in Direction : NewHead(body[2], d) = body[1]

SpeedAt(sc) == Max(MIN_SPEED, INITIAL_SPEED - SPEED_DECREMENT * sc)

\* a game being played with the body held by snake, nothing pending but a
\* heading
InProgress ==
  /\ direction = HeadingOf(snake)
  /\ nextDirection \in Direction \ {Opposite(direction)}
  /\ score = Len(snake) - 3
  /\ highScore \in {score, score + 1}
  /\ startHigh = (IF highScore > score THEN highScore ELSE 0)
  /\ saved = (IF highScore = 0 THEN <<>> ELSE <<highScore>>)
  /\ status = "PLAYING"
  /\ speed = SpeedAt(score)
  /\ deathReason = NULL
  /\ ticks = MaxTicks - 1
  /\ last = [op |-> "init", path |-> "init", arg |-> NULL, wrote |-> <<>>]

GameInProgress ==
  /\ snake \in SmallSnakes \cup LongSnakes
  /\ InProgress
  /\ foodCall = <<>>

InitTick == GameInProgress /\ food \in generateFood(snake)

SpecTick == InitTick /\ [][GameLoop]_vars

\* the same states with the food lying on the snake's last cell
InitTailFood == GameInProgress /\ food = Tail_(snake)

SpecTailFood == InitTailFood /\ [][GameLoop]_vars

(***************************************************************************)
(* The end of a long game and what follows it: SpecLate starts from the    *)
(* long snakes, whose tick interval is at the clamp, with one tick to go,  *)
(* and runs every handler from there: the last meal or the death, pauses,  *)
(* the restart and the game after it.  (The START GAME button is left out: *)
(* it is on screen in IDLE only.)                                           *)
(***************************************************************************)
InitLate == InitTick /\ snake \in LongSnakes

NextLate ==
  \/ SpaceKey
  \/ PlayAgainButton
  \/ PauseButton
  \/ DirectionInput
  \/ GameLoop

SpecLate == InitLate /\ [][NextLate]_vars

(***************************************************************************)
(* generateFood followed one draw at a time.  SpecFood starts where a       *)
(* growth tick has just called generateFood(newSnake): GameState is still  *)
(* prev, the head is about to move onto the food.  Among the bodies is the *)
(* one that leaves a single cell of the grid free.  The loop is left by a  *)
(* draw off the body; the tick then commits.                                *)
(***************************************************************************)
FullGridSnake == LongSnake(GRID_SIZE * GRID_SIZE - 1)

InitFood ==
  /\ snake \in SmallSnakes \cup {FullGridSnake}
  /\ InProgress
  /\ food = NewHead(snake[1], nextDirection)
  /\ ~HitsWall(food)
  /\ ~isAtCoordinate(food, snake)
  /\ foodCall = <<[snake |-> <<food>> \o snake, newFood |-> <<>>, returned |-> FALSE]>>

\* one pass of the while (true) loop: draw newFood, break if it is off the body
generateFoodDraw(c) ==
  /\ foodCall # <<>>
  /\ ~foodCall[1].returned
  /\ foodCall' = <<[foodCall[1] EXCEPT
                      !.newFood = <<c>>,
                      !.returned = ~isAtCoordinate(c, foodCall[1].snake)]>>
  /\ UNCHANGED <<gameState, nextDirection, saved, ticks, startHigh, last>>

generateFoodLoop ==
  /\ foodCall # <<>>
  /\ \E c \in Draws(foodCall[1].snake[1]) : generateFoodDraw(c)

\* the passes that leave the loop
generateFoodBreak ==
  /\ foodCall # <<>>
  /\ \E c \in generateFood(foodCall[1].snake) : generateFoodDraw(c)

\* generateFood has returned newFood: the rest of the growth path, and the
\* commit
GrowthCommit ==
  /\ foodCall # <<>>
  /\ foodCall[1].returned
  /\ foodCall' = <<>>
  /\ ticks < MaxTicks
  /\ ticks' = ticks + 1
  /\ UNCHANGED startHigh
  /\ Grow(foodCall[1].snake, nextDirection, "grow")
  /\ food' = foodCall[1].newFood[1]

NextFood == generateFoodLoop \/ GrowthCommit

\* the loop keeps drawing and straight-line code runs on; random draws are
\* fair: a draw that can leave the loop is made in the end
SpecFood ==
  /\ InitFood
  /\ [][NextFood]_vars
  /\ WF_vars(generateFoodLoop)
  /\ WF_vars(generateFoodBreak)
  /\ WF_vars(GrowthCommit)

(***************************************************************************)
(* The claims.                                                             *)
(***************************************************************************)
\* the cell one step from the head along the pending heading
Ahead ==
  Cell(snake[1].x + (IF nextDirection = "RIGHT" THEN 1
                     ELSE IF nextDirection = "LEFT" THEN -1 ELSE 0),
       snake[1].y + (IF nextDirection = "DOWN" THEN 1
                     ELSE IF nextDirection = "UP" THEN -1 ELSE 0))

InGrid(c) == c.x \in 0..(GRID_SIZE - 1) /\ c.y \in 0..(GRID_SIZE - 1)

\* a tick of a game that is being played
PlayingTick == status = "PLAYING" /\ GameLoop

\* C1: a direction input asking for the exact opposite of GameState.direction
\* changes neither the pending heading nor any field of GameState.
C1_OppositeIgnored ==
  [][\A d \in Direction :
       (handleDirectionChange(d) /\ d = Opposite(direction))
         => (nextDirection' = nextDirection /\ gameState' = gameState)]_vars

C1_Witness ==
  /\ last.op = "direction" /\ last.path = "rejected"
  /\ last.arg = Opposite(direction)
  /\ status = "PLAYING" /\ direction = "LEFT" /\ nextDirection = "DOWN"

\* C2: a tick of a PLAYING game whose new head is outside the grid ends the
\* game with cause WALL and changes no other field of GameState.
C2_WallDeath ==
  [][(PlayingTick /\ ~InGrid(Ahead))
       => /\ status' = "GAME_OVER" /\ deathReason' = "WALL"
          /\ UNCHANGED <<snake, food, score, highScore, speed, direction>>]_vars

C2_Witness ==
  /\ last.op = "tick" /\ status = "GAME_OVER" /\ deathReason = "WALL"
  /\ ~InGrid(Ahead)

\* C3: a tick of a PLAYING game whose new head is in the grid and on a body
\* cell other than the last one ends the game with cause SELF; snake, food,
\* score, speed and high score stay as they were.
C3_SelfDeath ==
  [][(PlayingTick /\ InGrid(Ahead)
        /\ \E i \in 1..(Len(snake) - 1) : snake[i] = Ahead)
       => /\ status' = "GAME_OVER" /\ deathReason' = "SELF"
          /\ UNCHANGED <<snake, food, score, speed, highScore>>]_vars

C3_Witness ==
  /\ last.op = "tick" /\ status = "GAME_OVER" /\ deathReason = "SELF"
  /\ InGrid(Ahead)
  /\ \E i \in 1..(Len(snake) - 1) : snake[i] = Ahead

C6_EatGrows ==
  [][(PlayingTick /\ Ahead = food /\ status' = "PLAYING")
       => /\ score' = score + 1
          /\ snake' = <<Ahead>> \o snake
          /\ Len(snake') = Len(snake) + 1]_vars

C6_Witness ==
  /\ last.op = "tick" /\ last.path = "grow" /\ status = "PLAYING"
  /\ score >= 1 /\ Len(snake) = score + 3

\* C7: whenever food is placed (start, restart, growth tick) the new food cell
\* is in the grid and on no cell of the body it is placed against.
C7_FoodOffBody ==
  [][(startGame \/ (PlayingTick /\ score' = score + 1))
       => /\ InGrid(food')
          /\ \A i \in 1..Len(snake') : snake'[i] # food']_vars

C7_Witness ==
  /\ last.op = "tick" /\ last.path = "grow"
  /\ InGrid(food) /\ \A i \in 1..Len(snake) : snake[i] # food

\* C8: on a growth tick the new interval is max(MIN_SPEED, old interval -
\* SPEED_DECREMENT): one step less when that is at least MIN_SPEED, never
\* below MIN_SPEED.
C8_SpeedStep ==
  [][(PlayingTick /\ score' = score + 1)
       => /\ speed' = (IF speed - SPEED_DECREMENT >= MIN_SPEED
                         THEN speed - SPEED_DECREMENT ELSE MIN_SPEED)
          /\ speed' >= MIN_SPEED]_vars

\* the clamp has acted: the interval was already MIN_SPEED before this meal
C8_Witness ==
  /\ last.op = "tick" /\ last.path = "grow"
  /\ score = ClampScore + 1 /\ speed = MIN_SPEED

\* C9: a tick that is survived without eating moves the body (new head, then
\* the old body without its last cell), sets direction to the heading moved
\* along, and leaves score, food, interval and high score alone.
C9_SlideStep ==
  [][(PlayingTick /\ Ahead # food /\ status' = "PLAYING")
       => /\ snake' = <<Ahead>> \o SubSeq(snake, 1, Len(snake) - 1)
          /\ direction' = nextDirection
          /\ UNCHANGED <<score, food, speed, highScore>>]_vars

\* a slide that turned: the last move differs from the one before it
C9_Witness ==
  /\ last.op = "tick" /\ last.path = "slide" /\ status = "PLAYING"
  /\ direction = nextDirection
  /\ NewHead(snake[2], direction) = snake[1]
  /\ NewHead(snake[3], direction) # snake[2]

\* C10: the high score is never below the score, and once the score has
\* passed the high score the game started with, the two are equal.
C10_HighScore ==
  /\ highScore >= score
  /\ (score > startHigh => highScore = score)

C10_Witness ==
  /\ startHigh >= 1 /\ score > startHigh /\ highScore = score
  /\ status = "PAUSED"

\* C11: a step raises the high score only if it is a tick of a PLAYING game,
\* and that tick calls localStorage.setItem exactly once, with the new high
\* score; a step that does not raise the high score (any other tick, pause,
\* resume, direction input, start, restart) makes no call and leaves the item
\* alone.  So once the high score has risen in a game the item equals it.
C11_PersistedOnRaise ==
  [][/\ IF highScore' > highScore
          THEN PlayingTick /\ last'.wrote = <<highScore'>> /\ saved' = <<highScore'>>
          ELSE last'.wrote = <<>> /\ saved' = saved
     /\ (highScore' > startHigh' => saved' = <<highScore'>>)]_vars

\* a stored high score has been beaten and the new one written over it
C11_Witness ==
  /\ last.op = "tick" /\ last.wrote = <<highScore>> /\ saved = <<highScore>>
  /\ startHigh >= 1 /\ highScore = startHigh + 1

\* C12: startGame runs only from IDLE or GAME_OVER.  In PLAYING and PAUSED
\* the space key, the start button and the play-again button never reset the
\* game: the space key toggles between PLAYING and PAUSED and leaves the
\* rest of GameState and the pending heading alone (the two buttons are not
\* on screen).
C12_FreshGameOnlyFromIdleOrOver ==
  [][/\ startGame => status \in {"IDLE", "GAME_OVER"}
     /\ (status \in {"PLAYING", "PAUSED"}
           /\ (SpaceKey \/ StartButton \/ PlayAgainButton))
          => /\ status' = (IF status = "PLAYING" THEN "PAUSED" ELSE "PLAYING")
             /\ UNCHANGED <<snake, food, direction, score, highScore, speed,
                            deathReason, nextDirection>>]_vars

\* a game with a meal behind it has been paused, not reset
C12_Witness ==
  /\ last.op = "pauseGame" /\ last.path = "pause" /\ status = "PAUSED"
  /\ score >= 1 /\ Len(snake) = 4 /\ ticks >= 1

\* C13: starting or restarting a game gives snake [(10,10),(10,11),(10,12)],
\* score 0, direction UP, pending heading UP, status PLAYING, interval
\* INITIAL_SPEED, no death cause, the food in the grid and off the snake, and
\* the high score it had before.
C13_FreshGame ==
  [][startGame
       => /\ snake' = <<[x |-> 10, y |-> 10], [x |-> 10, y |-> 11], [x |-> 10, y |-> 12]>>
          /\ score' = 0
          /\ direction' = "UP"
          /\ nextDirection' = "UP"
          /\ status' = "PLAYING"
          /\ speed' = INITIAL_SPEED
          /\ deathReason' = NULL
          /\ InGrid(food')
          /\ \A i \in 1..Len(snake') : snake'[i] # food'
          /\ highScore' = highScore]_vars

\* a restart after a game that set a new high score
C13_Witness ==
  /\ last.op = "startGame" /\ status = "PLAYING" /\ score = 0
  /\ highScore > MaxSaved /\ saved = <<highScore>>
  /\ Len(snake) = 3 /\ nextDirection = "UP"

\* C14: a timer tick in IDLE, PAUSED or GAME_OVER changes no field of
\* GameState and not the pending heading.  Nothing that can happen while the
\* game is PAUSED changes GameState except the status on resume, so the game
\* resumes with the snake, food, score and interval it was paused with; and
\* GAME_OVER is left only by a fresh start.
C14_IdleTick ==
  [][/\ (status # "PLAYING" /\ GameLoop)
          => (gameState' = gameState /\ nextDirection' = nextDirection)
     /\ status = "PAUSED"
          => /\ UNCHANGED <<snake, food, direction, score, highScore, speed, deathReason>>
             /\ status' \in {"PAUSED", "PLAYING"}
     /\ status = "GAME_OVER" => (status' = "GAME_OVER" \/ startGame)]_vars

\* a tick has arrived in a paused game that has moved and eaten
C14_Witness ==
  /\ last.op = "tick" /\ last.path = "skip" /\ status = "PAUSED"
  /\ score >= 1 /\ ticks >= 2 /\ nextDirection # direction

\* C15: a direction input in IDLE, PAUSED or GAME_OVER changes neither the
\* pending heading nor any field of GameState.
C15_InputIgnoredOffPlay ==
  [][\A d \in Direction :
       (status # "PLAYING" /\ handleDirectionChange(d))
         => (nextDirection' = nextDirection /\ gameState' = gameState)]_vars

\* C16 as claimed: when a direction input follows another with no tick in
\* between, the pending heading becomes the second input, the heading the
\* next tick moves along.
C16_SecondInputWins ==
  [][\A d \in Direction :
       (status = "PLAYING" /\ last.op = "direction" /\ handleDirectionChange(d))
         => nextDirection' = d]_vars

\* C16 as amended: when a direction input follows another with no tick in
\* between, the pending heading becomes the second input unless that is the
\* exact opposite of GameState.direction, in which case it stays what the
\* first input left it; GameState is untouched, and a tick moves the head
\* along the pending heading and commits it on survival.
C16_SlotOverwritten ==
  [][/\ \A d \in Direction :
          (status = "PLAYING" /\ last.op = "direction" /\ handleDirectionChange(d))
            => /\ nextDirection' = (IF d = Opposite(direction) THEN nextDirection ELSE d)
               /\ gameState' = gameState
     /\ (PlayingTick /\ status' = "PLAYING")
          => (snake'[1] = Ahead /\ direction' = nextDirection)]_vars

\* the second of two inputs since the last tick was turned down: the first
\* (RIGHT) is still pending
C16_Witness ==
  /\ status = "PLAYING" /\ ticks >= 1
  /\ last.op = "direction" /\ last.path = "rejected" /\ last.arg = "DOWN"
  /\ direction = "UP" /\ nextDirection = "RIGHT"

\* C17: whenever a tick can move the snake (status PLAYING), the pending
\* heading is not the exact opposite of GameState.direction, and the cell
\* ahead of the head along it is not the neck, the second cell of the body.
C17_NoReversal ==
  status = "PLAYING"
    => /\ nextDirection # Opposite(direction)
       /\ Ahead # snake[2]

\* after a turn to the left, with the neck to the right of the head, a
\* further turn is pending
C17_Witness ==
  /\ last.op = "direction" /\ status = "PLAYING" /\ ticks >= 2
  /\ direction = "LEFT" /\ nextDirection = "DOWN"
  /\ snake[2] = [x |-> snake[1].x + 1, y |-> snake[1].y]

\* C18: every call of generateFood made by a growth tick returns, and the
\* tick commits its next state, the body grown and the food placed anew.
C18_FoodPlacementCompletes ==
  (foodCall # <<>>) ~> (foodCall = <<>> /\ last.op = "tick" /\ last.path = "grow")

\* C19: the body has at least 3 cells, every cell of it is inside the grid,
\* and no two of its elements are the same cell.
C19_BodyWellFormed ==
  /\ Len(snake) >= 3
  /\ \A i \in 1..Len(snake) : InGrid(snake[i])
  /\ \A i, j \in 1..Len(snake) : i # j => snake[i] # snake[j]

\* the head has just moved into the cell its tail left, in a corner of the
\* grid
C19_Witness ==
  /\ last.op = "tick" /\ last.path = "tail_slide" /\ status = "PLAYING"
  /\ snake[1] = [x |-> 0, y |-> 0]
  /\ Len(snake) = 4

\* C20: the status is GAME_OVER exactly when a death cause (WALL or SELF) is
\* set.  The cause changes on two kinds of step only: the tick of a PLAYING
\* game that enters GAME_OVER sets it, and startGame clears it.
C20_DeathCause ==
  /\ []((status = "GAME_OVER") <=> (deathReason \in {"WALL", "SELF"}))
  /\ [](status # "GAME_OVER" => deathReason = NULL)
  /\ [][/\ (status # "GAME_OVER" /\ status' = "GAME_OVER")
            => (PlayingTick /\ deathReason = NULL /\ deathReason' # NULL)
        /\ deathReason' # deathReason
            => \/ PlayingTick /\ status' = "GAME_OVER"
               \/ startGame /\ deathReason' = NULL]_vars

\* the game has ended on the snake's own body
C20_Witness ==
  /\ status = "GAME_OVER" /\ deathReason = "SELF"
  /\ last.op = "tick" /\ last.path = "self"

\* C21: in every state the food is on no cell of the body; so the cell the
\* head is about to move to is never both the food and the last cell of the
\* body, and no tick has grown the snake over its own tail.
C21_FoodOffBodyAlways ==
  /\ \A i \in 1..Len(snake) : snake[i] # food
  /\ ~(Ahead = food /\ Ahead = snake[Len(snake)])
  /\ last.path # "tail_grow"

\* the head is about to move into the cell of its tail, the food elsewhere
C21_Witness ==
  /\ status = "PLAYING" /\ ticks < MaxTicks
  /\ Ahead = snake[Len(snake)] /\ food # Ahead
  /\ score >= 1

\* C22: a tick of a PLAYING game that does not eat and passes the pre-growth
\* check (the new head is in the grid and on no body cell, or on the last
\* one) is survived: the new head is on no cell of the body without its
\* tail.  So a tick that ends the game with cause SELF had its new head on a
\* body cell other than the last: the pre-growth check produced the death.
C22_PostPopNeverKills ==
  [][PlayingTick
       => /\ (/\ InGrid(Ahead)
               /\ Ahead # food
               /\ \/ \A i \in 1..Len(snake) : snake[i] # Ahead
                  \/ Ahead = snake[Len(snake)])
              => /\ status' = "PLAYING"
                 /\ \A i \in 1..(Len(snake) - 1) : snake[i] # Ahead
          /\ deathReason' = "SELF"
              => /\ \E i \in 1..Len(snake) : snake[i] = Ahead
                 /\ Ahead # snake[Len(snake)]]_vars

\* a tail chase in the bottom-right corner went through both checks
C22_Witness ==
  /\ last.op = "tick" /\ last.path = "tail_slide"
  /\ status = "PLAYING" /\ deathReason = NULL
  /\ snake[1] = [x |-> GRID_SIZE - 1, y |-> GRID_SIZE - 1]

\* C23: in every state the tick interval is the larger of MIN_SPEED and
\* INITIAL_SPEED - SPEED_DECREMENT * score, and so lies between MIN_SPEED and
\* INITIAL_SPEED.
C23_SpeedFromScore ==
  /\ speed = (IF INITIAL_SPEED - SPEED_DECREMENT * score >= MIN_SPEED
                THEN INITIAL_SPEED - SPEED_DECREMENT * score
                ELSE MIN_SPEED)
  /\ MIN_SPEED <= speed
  /\ speed <= INITIAL_SPEED

\* a game at the clamp has ended and the next one, one meal in, is paused
C23_Witness ==
  /\ status = "PAUSED" /\ score = 1
  /\ speed = INITIAL_SPEED - SPEED_DECREMENT
  /\ highScore > ClampScore
=============================================================================
